---- MODULE Spec2Model ----
(***************************************************************************)
(* Model of the markenz audit tools:                                       *)
(*   tools/audits/determinism_audit.py  (class DeterminismAuditor)          *)
(*   tools/audits/replay_audit.py       (class ReplayAudit)                 *)
(*                                                                         *)
(* Python strings and byte strings are sequences of one-character strings. *)
(* A SHA-256 digest is the record [sha256 |-> input]: two digests are      *)
(* equal exactly when their inputs are, which is the collision-free        *)
(* reading of the digest function.  Formatting (str of an int, repr of a   *)
(* bytes object, hex of a digest, f-string concatenation) is modelled by   *)
(* what it produces.  A hex string of a digest d is <<"hex", d>>.  Python  *)
(* None is the empty sequence <<>>; a bool or int that may also be None is *)
(* <<v>> when present.                                                     *)
(***************************************************************************)
EXTENDS Integers, Sequences, FiniteSets, TLC

\* ------------------------------------------------------------------ bounds
MaxSeed == 1
MaxTick == 1
MaxEvents == 2
MaxCmpTick == 2
MaxTrajectory == 2

\* ------------------------------------------------------------ Python values
None == <<>>

Some(v) == <<v>>

EmptyStr == <<>>

DigitChars == <<"0", "1", "2", "3", "4", "5", "6", "7", "8", "9">>

\* str(n) of a non-negative int (the "{...}" of an f-string)
RECURSIVE ToStr(_)
ToStr(n) ==
    IF n < 10 THEN <<DigitChars[n + 1]>>
    ELSE ToStr(n \div 10) \o <<DigitChars[(n % 10) + 1]>>

\* hashlib.sha256(data).digest()
Sha256(data) == [sha256 |-> data]

\* digest.hex() / hashlib.sha256(data).hexdigest()
Hex(digest) == <<"hex", digest>>

\* a bytes object as the bytes it contributes to a concatenation
Bytes(digest) == <<digest>>

\* "{b}" of a bytes object inside an f-string: its repr, b'...'
BytesRepr(digest) == <<[repr |-> digest]>>

\* ------------------------------------------------------------------ inputs
Seeds == 0..MaxSeed

Ticks == 0..MaxTick

\* (event_type, payload) of an event, as text
EventContents ==
    {<<<<"a">>, <<"a">>>>, <<<<"a">>, <<"a", "a">>>>, <<<<"a", "a">>, <<"a">>>>}

\* a row of input_events, as replay_deterministically reads it
Events ==
    {[tick |-> t, event_type |-> c[1], payload |-> c[2]] :
        t \in Ticks, c \in EventContents}

EventSeqs == UNION {[1..n -> Events] : n \in 0..MaxEvents}

\* the event sequences a later invocation is given: the same sequence again,
\* a permutation of it, or the sequence with one event replaced
Perms(s) ==
    {[i \in 1..Len(s) |-> s[p[i]]] :
        p \in {q \in [1..Len(s) -> 1..Len(s)] :
                 \A i, j \in 1..Len(s) : q[i] = q[j] => i = j}}

PointChanges(s) == {[s EXCEPT ![k] = e] : k \in 1..Len(s), e \in Events}

Variants(s) == {s} \cup Perms(s) \cup PointChanges(s)

\* digests recorded by the simulation, as opaque values
Digests == {"A", "B"}

\* "0" * 64, line 92
Zero64 == [i \in 1..64 |-> "0"]

\* an entry of a ReplayAudit events file, read with .get(key, ''): a missing
\* or empty hash / prev_hash is the empty string
ChainEvents ==
    [tick : Ticks,
     hash : {EmptyStr} \cup {Hex(d) : d \in Digests},
     prev_hash : {EmptyStr, Zero64} \cup {Hex(d) : d \in Digests}]

ChainEventSeqs == UNION {[1..n -> ChainEvents] : n \in 0..MaxEvents}

\* a row of hash_checkpoints as the comparator reads it: tick and world_hash
\* (bytes); prev_hash, verified and created_at are selected and never read
CmpTicks == 0..MaxCmpTick

Checkpoints == [tick : CmpTicks, world_hash : Digests]

CheckpointSeqs == UNION {[1..n -> Checkpoints] : n \in 0..MaxTrajectory}

\* an entry of a replayed trajectory: (tick, hex digest)
TrajectoryEntries == {<<t, Hex(d)>> : t \in CmpTicks, d \in Digests}

Trajectories == UNION {[1..n -> TrajectoryEntries] : n \in 0..MaxTrajectory}

\* the events of a ReplayAudit events file that carry only a tick
TickOnlyEvents == [tick : Ticks, hash : {EmptyStr}, prev_hash : {EmptyStr}]

TickOnlyEventSeqs == UNION {[1..n -> TickOnlyEvents] : n \in 0..MaxEvents}

\* ------------------------------------------------------------------- state
VARIABLES
    tool,             \* which script runs: "determinism_audit" or "replay_audit"
    seed,             \* self.seed
    \* DeterminismAuditor.replay_deterministically
    pc,               \* "idle", "loop", "returned"
    events,           \* the argument of the current invocation
    rng_state,        \* local rng_state
    universe_state,   \* local universe_state
    replay_hashes,    \* local replay_hashes
    cursor,           \* events already consumed by the for loop
    ret,              \* the value the current invocation returned
    last,             \* the previous invocation: its argument and its result
    \* ReplayAudit
    ra_pc,            \* position inside verify_hash_stability
    ra_events,        \* self.events
    hash_trajectory_1,
    hash_trajectory_2,
    divergence_point, \* self.divergence_point
    audit_result,     \* self.audit_result
    stable,           \* the value verify_hash_stability returned
    prev_hash,        \* local prev_hash of verify_hash_chain
    examined,         \* events the loop of verify_hash_chain has taken
    chain_ok,         \* the value verify_hash_chain returned
    break_tick,       \* the tick printed by "Hash chain broken at tick ..."
    \* DeterminismAuditor.verify_hash_chain and generate_report
    cmp_pc,           \* "idle", "verify", "report", "done"
    db_checkpoints,   \* the argument db_checkpoints
    cmp_replay,       \* the argument replay_hashes
    verification_result, \* first component of the value returned
    divergences,      \* second component of the value returned
    report,           \* report['verification_result'] of generate_report
    exit_code,        \* the status of sys.exit, when the process has exited
    \* run_audit and main of either script
    main_pc,          \* position inside run_audit / main
    log_events,       \* DeterminismAuditor.run_audit: local events
    checkpoints,      \* DeterminismAuditor.run_audit: local checkpoints
    hash_trajectory,  \* ReplayAudit: self.hash_trajectory
    ra_report         \* ReplayAudit.run_audit: local report, once generated

builderVars ==
    <<pc, events, rng_state, universe_state, replay_hashes, cursor, ret, last>>

chainVars == <<prev_hash, examined, chain_ok, break_tick>>

raVars ==
    <<ra_pc, ra_events, hash_trajectory_1, hash_trajectory_2,
      divergence_point, audit_result, stable, prev_hash, examined, chain_ok,
      break_tick>>

cmpVars ==
    <<cmp_pc, db_checkpoints, cmp_replay, verification_result, divergences,
      report, exit_code>>

flowVars == <<main_pc, log_events, checkpoints, hash_trajectory, ra_report>>

vars == <<tool, seed, builderVars, raVars, cmpVars, flowVars>>

\* no run_audit is in progress: a step is called on its own
FlowIdle ==
    /\ main_pc = "idle"
    /\ log_events = <<>>
    /\ checkpoints = <<>>
    /\ hash_trajectory = <<>>
    /\ ra_report = None

\* ---------------------------------- DeterminismAuditor: trajectory builder
GenesisBytes == <<"g", "e", "n", "e", "s", "i", "s">>

TickBytes == <<"t", "i", "c", "k">>

\* line 76
InitialRngState(s) == Sha256(ToStr(s))

\* lines 79-84
InitialUniverseState(rng) ==
    [tick |-> 0, agents |-> <<>>, world_hash |-> Sha256(GenesisBytes),
     rng_state |-> rng]

\* lines 93-95: the f-string and its digest
EventHash(event, u) ==
    Sha256(ToStr(event.tick) \o event.event_type \o event.payload
           \o BytesRepr(u.rng_state))

\* line 101
NextRngState(rng) == Sha256(Bytes(rng) \o TickBytes)

\* what an invocation may be given: any event sequence the first time, a
\* variant of the previous argument afterwards
Arguments == IF pc = "idle" THEN EventSeqs ELSE Variants(events)

NoCall == [called |-> FALSE, events |-> <<>>, hashes |-> <<>>]

BuilderIdle ==
    /\ pc = "idle"
    /\ events = <<>>
    /\ rng_state = None
    /\ universe_state = None
    /\ replay_hashes = <<>>
    /\ cursor = 0
    /\ ret = <<>>
    /\ last = NoCall

\* a mutation of ReplayBegin: replay_hashes is not reset by the call
ReplayBeginKeepHashes(evs) ==
    /\ tool = "determinism_audit"
    /\ pc = "idle" \/ (pc = "returned" /\ ~last.called)
    /\ last' = (IF pc = "idle" THEN NoCall
                ELSE [called |-> TRUE, events |-> events, hashes |-> ret])
    /\ events' = evs
    /\ rng_state' = InitialRngState(seed)
    /\ universe_state' = InitialUniverseState(InitialRngState(seed))
    /\ replay_hashes' = replay_hashes
    /\ cursor' = 0
    /\ pc' = "loop"
    /\ UNCHANGED <<flowVars, tool, seed, ret, raVars, cmpVars>>

\* replay_deterministically(events), lines 71-86: the call and the set-up.
\* The builder is invoked, and once it has returned it is invoked once more.
ReplayBegin(evs) ==
    /\ tool = "determinism_audit"
    /\ pc = "idle" \/ (pc = "returned" /\ ~last.called)
    /\ last' = (IF pc = "idle" THEN NoCall
                ELSE [called |-> TRUE, events |-> events, hashes |-> ret])
    /\ events' = evs
    /\ rng_state' = InitialRngState(seed)
    /\ universe_state' = InitialUniverseState(InitialRngState(seed))
    /\ replay_hashes' = <<>>
    /\ cursor' = 0
    /\ pc' = "loop"
    /\ UNCHANGED <<flowVars, tool, seed, ret, raVars, cmpVars>>

\* one iteration of the for loop, lines 88-102
ReplayStep ==
    /\ tool = "determinism_audit"
    /\ pc = "loop"
    /\ cursor < Len(events)
    /\ LET event == events[cursor + 1]
           ticked == [universe_state EXCEPT !.tick = event.tick]
           event_hash == EventHash(event, ticked)
           rng == NextRngState(rng_state)
       IN  /\ replay_hashes' = Append(replay_hashes, <<event.tick, Hex(event_hash)>>)
           /\ rng_state' = rng
           /\ universe_state' =
                [ticked EXCEPT !.world_hash = event_hash, !.rng_state = rng]
    /\ cursor' = cursor + 1
    /\ UNCHANGED <<flowVars, tool, seed, pc, events, ret, last, raVars, cmpVars>>

\* a mutation of ReplayReturn: a genesis entry leads the returned trajectory
ReplayReturnWithGenesis ==
    /\ tool = "determinism_audit"
    /\ pc = "loop"
    /\ cursor = Len(events)
    /\ ret' = <<<<0, Hex(Sha256(GenesisBytes))>>>> \o replay_hashes
    /\ pc' = "returned"
    /\ UNCHANGED <<flowVars, tool, seed, events, rng_state, universe_state, replay_hashes,
                   cursor, last, raVars, cmpVars>>

\* lines 104-105
ReplayReturn ==
    /\ tool = "determinism_audit"
    /\ pc = "loop"
    /\ cursor = Len(events)
    /\ ret' = replay_hashes
    /\ pc' = "returned"
    /\ UNCHANGED <<flowVars, tool, seed, events, rng_state, universe_state, replay_hashes,
                   cursor, last, raVars, cmpVars>>

\* ------------------------------------ DeterminismAuditor: the comparator
\* a mutation of ReplayHashDict: the first entry of a tick is kept
ReplayHashDictFirst(rh) ==
    [t \in {rh[i][1] : i \in DOMAIN rh} |->
        rh[CHOOSE i \in DOMAIN rh :
             /\ rh[i][1] = t
             /\ \A j \in DOMAIN rh : rh[j][1] = t => i <= j][2]]

\* the dict comprehension of lines 111-112: a later entry of a tick
\* overwrites an earlier one
ReplayHashDict(rh) ==
    [t \in {rh[i][1] : i \in DOMAIN rh} |->
        rh[CHOOSE i \in DOMAIN rh :
             /\ rh[i][1] = t
             /\ \A j \in DOMAIN rh : rh[j][1] = t => j <= i][2]]

CmpIdle ==
    /\ cmp_pc = "idle"
    /\ db_checkpoints = <<>>
    /\ cmp_replay = <<>>
    /\ verification_result = None
    /\ divergences = <<>>
    /\ report = None
    /\ exit_code = None

\* a mutation of Divergence: a tick absent from the replay is not reported
DivergenceNoMissing(checkpoint, replay_hash_dict) ==
    LET tick == checkpoint.tick
        db_hash == Hex(checkpoint.world_hash)
    IN  IF tick \in DOMAIN replay_hash_dict
        THEN IF db_hash # replay_hash_dict[tick]
             THEN <<[tick |-> tick, db_hash |-> db_hash,
                     replay_hash |-> replay_hash_dict[tick],
                     type |-> "hash_mismatch"]>>
             ELSE <<>>
        ELSE <<>>

\* the body of the for loop, lines 117-135: what one checkpoint appends
Divergence(checkpoint, replay_hash_dict) ==
    LET tick == checkpoint.tick
        db_hash == Hex(checkpoint.world_hash)
    IN  IF tick \in DOMAIN replay_hash_dict
        THEN IF db_hash # replay_hash_dict[tick]
             THEN <<[tick |-> tick, db_hash |-> db_hash,
                     replay_hash |-> replay_hash_dict[tick],
                     type |-> "hash_mismatch"]>>
             ELSE <<>>
        ELSE <<[tick |-> tick, db_hash |-> db_hash, replay_hash |-> None,
                type |-> "missing_hash"]>>

\* the for loop of lines 114-135
RECURSIVE CollectDivergences(_, _)
CollectDivergences(cps, replay_hash_dict) ==
    IF cps = <<>> THEN <<>>
    ELSE Divergence(Head(cps), replay_hash_dict)
         \o CollectDivergences(Tail(cps), replay_hash_dict)

\* verify_hash_chain(db_checkpoints, replay_hashes), lines 107-146
VerifyHashChain ==
    /\ tool = "determinism_audit"
    /\ cmp_pc = "verify"
    /\ LET found == CollectDivergences(db_checkpoints, ReplayHashDict(cmp_replay))
       IN  IF found # <<>>
           THEN /\ verification_result' = Some(FALSE)
                /\ divergences' = found
           ELSE /\ verification_result' = Some(TRUE)
                /\ divergences' = <<>>
    /\ cmp_pc' = "report"
    /\ UNCHANGED <<flowVars, tool, seed, builderVars, raVars, db_checkpoints, cmp_replay,
                   report, exit_code>>

\* a mutation of FirstDivergenceTick: the tick of the last divergence
LastDivergenceTick(divs) ==
    IF divs # <<>> THEN Some(divs[Len(divs)].tick) ELSE None

\* line 160
FirstDivergenceTick(divs) ==
    IF divs # <<>> THEN Some(divs[1].tick) ELSE None

\* a mutation of ReportStatus: the two outcomes exchanged
ReportStatusInverted(result) == IF result THEN "FAIL" ELSE "PASS"

\* line 158
ReportStatus(result) == IF result THEN "PASS" ELSE "FAIL"

\* generate_report, lines 148-192: the 'verification_result' part of the
\* report.  The summary reloads checkpoints and events (lines 164-165); a
\* failing query ends the process with status 2 before any report exists.
GenerateReport ==
    /\ tool = "determinism_audit"
    /\ cmp_pc = "report"
    /\ \E db_answers \in BOOLEAN :
          IF db_answers
          THEN /\ report' =
                    Some([status |-> ReportStatus(verification_result[1]),
                          divergences_count |-> Len(divergences),
                          first_divergence_tick |-> FirstDivergenceTick(divergences)])
               /\ UNCHANGED exit_code
          ELSE /\ exit_code' = Some(2)
               /\ UNCHANGED report
    /\ cmp_pc' = "done"
    /\ UNCHANGED <<flowVars, tool, seed, builderVars, raVars, db_checkpoints, cmp_replay,
                   verification_result, divergences>>

\* ------------------------------------------- ReplayAudit: hash stability
\* range(0, 101), lines 47 and 70
PhaseTicks == 101

ColonChar == <<":">>

\* list comprehension of line 39: the events with e['tick'] <= tick
RECURSIVE CountUpTo(_, _)
CountUpTo(evs, tick) ==
    IF evs = <<>> THEN 0
    ELSE (IF Head(evs).tick <= tick THEN 1 ELSE 0) + CountUpTo(Tail(evs), tick)

\* simulate_universe_state(tick), lines 36-40
SimulateUniverseState(s, evs, tick) ==
    Hex(Sha256(ToStr(s) \o ColonChar \o ToStr(tick) \o ColonChar
               \o ToStr(CountUpTo(evs, tick))))

\* the inner loop of lines 70-75 for one run: one digest per tick 0..100
RunTrajectory(s, evs) ==
    [i \in 1..PhaseTicks |-> SimulateUniverseState(s, evs, i - 1)]

\* zip(hash_trajectory_1, hash_trajectory_2), lines 78-79: the unequal positions
Mismatches(t1, t2) ==
    {i \in 1..(IF Len(t1) < Len(t2) THEN Len(t1) ELSE Len(t2)) : t1[i] # t2[i]}

Least(S) == CHOOSE m \in S : \A n \in S : m <= n

ChainIdle ==
    /\ prev_hash = None
    /\ examined = 0
    /\ chain_ok = None
    /\ break_tick = None

RaIdle ==
    /\ ra_pc = "idle"
    /\ ra_events = <<>>
    /\ hash_trajectory_1 = <<>>
    /\ hash_trajectory_2 = <<>>
    /\ divergence_point = None
    /\ audit_result = "PASS"
    /\ stable = None
    /\ ChainIdle

\* verify_hash_stability, lines 61-67: entry, the two empty lists
StabilityBegin ==
    /\ tool = "replay_audit"
    /\ ra_pc = "loaded"
    /\ hash_trajectory_1' = <<>>
    /\ hash_trajectory_2' = <<>>
    /\ ra_pc' = "run0"
    /\ UNCHANGED <<flowVars, tool, seed, builderVars, cmpVars, ra_events, divergence_point,
                   audit_result, stable, chainVars>>

\* lines 69-75: one pass of "for run in range(2)"
StabilityRun ==
    /\ tool = "replay_audit"
    /\ ra_pc \in {"run0", "run1"}
    /\ IF ra_pc = "run0"
       THEN /\ hash_trajectory_1' = RunTrajectory(seed, ra_events)
            /\ hash_trajectory_2' = hash_trajectory_2
            /\ ra_pc' = "run1"
       ELSE /\ hash_trajectory_2' = RunTrajectory(seed, ra_events)
            /\ hash_trajectory_1' = hash_trajectory_1
            /\ ra_pc' = "compare"
    /\ UNCHANGED <<flowVars, tool, seed, builderVars, cmpVars, ra_events, divergence_point,
                   audit_result, stable, chainVars>>

\* lines 77-86: the comparison loop and the return
StabilityCompare ==
    /\ tool = "replay_audit"
    /\ ra_pc = "compare"
    /\ LET bad == Mismatches(hash_trajectory_1, hash_trajectory_2)
       IN  IF bad # {}
           THEN /\ divergence_point' = Some(Least(bad) - 1)
                /\ audit_result' = "FAIL"
                /\ stable' = Some(FALSE)
           ELSE /\ stable' = Some(TRUE)
                /\ UNCHANGED <<divergence_point, audit_result>>
    /\ ra_pc' = "stability_done"
    /\ UNCHANGED <<flowVars, tool, seed, builderVars, cmpVars, ra_events, hash_trajectory_1,
                   hash_trajectory_2, chainVars>>

\* ------------------------------------------ ReplayAudit: hash-chain scan
\* a mutation of ChainBroken: no check while the expected hash is empty
ChainBrokenSkipEmptyExpected(event_prev_hash, expected) ==
    /\ event_prev_hash # EmptyStr
    /\ expected # EmptyStr
    /\ event_prev_hash # expected

\* a mutation of ChainBroken: an empty prev_hash is compared as well
ChainBrokenEmptyCompared(event_prev_hash, expected) ==
    event_prev_hash # expected

\* the condition of line 98: "event_prev_hash and event_prev_hash != prev_hash"
ChainBroken(event_prev_hash, expected) ==
    /\ event_prev_hash # EmptyStr
    /\ event_prev_hash # expected

\* a mutation of NextExpected: the expected hash is never advanced
NextExpectedStuck(event_hash, expected) == expected

\* line 105: prev_hash = event_hash
NextExpected(event_hash, expected) == event_hash

\* verify_hash_chain, lines 88-92: entry
ChainBegin ==
    /\ tool = "replay_audit"
    /\ ra_pc = "loaded"
    /\ prev_hash' = Zero64
    /\ examined' = 0
    /\ ra_pc' = "chain_loop"
    /\ UNCHANGED <<flowVars, tool, seed, builderVars, cmpVars, ra_events, hash_trajectory_1,
                   hash_trajectory_2, divergence_point, audit_result, stable,
                   chain_ok, break_tick>>

\* one iteration of the for loop, lines 93-105
ChainStep ==
    /\ tool = "replay_audit"
    /\ ra_pc = "chain_loop"
    /\ examined < Len(ra_events)
    /\ LET event == ra_events[examined + 1]
           event_hash == event.hash
           event_prev_hash == event.prev_hash
       IN  IF ChainBroken(event_prev_hash, prev_hash)
           THEN /\ break_tick' = Some(event.tick)
                /\ audit_result' = "FAIL"
                /\ chain_ok' = Some(FALSE)
                /\ ra_pc' = "chain_done"
                /\ UNCHANGED prev_hash
           ELSE /\ prev_hash' = NextExpected(event_hash, prev_hash)
                /\ UNCHANGED <<break_tick, audit_result, chain_ok, ra_pc>>
    /\ examined' = examined + 1
    /\ UNCHANGED <<flowVars, tool, seed, builderVars, cmpVars, ra_events, hash_trajectory_1,
                   hash_trajectory_2, divergence_point, stable>>

\* lines 107-108: the sequence is exhausted
ChainReturn ==
    /\ tool = "replay_audit"
    /\ ra_pc = "chain_loop"
    /\ examined = Len(ra_events)
    /\ chain_ok' = Some(TRUE)
    /\ ra_pc' = "chain_done"
    /\ UNCHANGED <<flowVars, tool, seed, builderVars, cmpVars, ra_events, hash_trajectory_1,
                   hash_trajectory_2, divergence_point, audit_result, stable,
                   prev_hash, examined, break_tick>>

\* -------------------------------------------------- specification: chain
\* verify_hash_chain reads self.events only; the seed is fixed
InitChain ==
    /\ tool = "replay_audit"
    /\ seed = 0
    /\ BuilderIdle
    /\ FlowIdle
    /\ CmpIdle
    /\ ra_pc = "loaded"
    /\ ra_events \in ChainEventSeqs
    /\ hash_trajectory_1 = <<>>
    /\ hash_trajectory_2 = <<>>
    /\ divergence_point = None
    /\ audit_result = "PASS"
    /\ stable = None
    /\ ChainIdle

NextChain ==
    \/ ChainBegin
    \/ ChainStep
    \/ ChainReturn

SpecChain == InitChain /\ [][NextChain]_vars

\* --------------------------------------------------------- claims: chain
ChainDone == ra_pc = "chain_done"

\* a sequence built with prev_hash[i] = hash[i-1], genesis prev_hash empty or
\* the all-zero sentinel
WellLinked(cps) ==
    /\ Len(cps) >= 1 => cps[1].prev_hash \in {EmptyStr, Zero64}
    /\ \A i \in 2..Len(cps) : cps[i].prev_hash = cps[i - 1].hash

\* cps is a well-linked sequence in which the prev_hash of the non-genesis
\* checkpoint i alone was replaced by another value
MutatedAt(cps, i) ==
    /\ i \in 2..Len(cps)
    /\ cps[i].prev_hash # cps[i - 1].hash
    /\ WellLinked([cps EXCEPT ![i].prev_hash = cps[i - 1].hash])

\* C2 as stated: a well-linked sequence is accepted, and a well-linked sequence
\* with the prev_hash of one non-genesis checkpoint replaced by any other value
\* is rejected with the break reported at that checkpoint's tick.
Claim_C2 ==
    ChainDone =>
        /\ WellLinked(ra_events) => chain_ok = Some(TRUE)
        /\ \A i \in 1..Len(ra_events) :
              MutatedAt(ra_events, i) =>
                  /\ chain_ok = Some(FALSE)
                  /\ break_tick = Some(ra_events[i].tick)

\* C2 as amended: the same, for a replacement by any other non-empty value.
Thm_C2 ==
    ChainDone =>
        /\ WellLinked(ra_events) => (chain_ok = Some(TRUE) /\ break_tick = None)
        /\ \A i \in 1..Len(ra_events) :
              (MutatedAt(ra_events, i) /\ ra_events[i].prev_hash # EmptyStr) =>
                  /\ chain_ok = Some(FALSE)
                  /\ break_tick = Some(ra_events[i].tick)

Wit_C2 ==
    /\ ChainDone
    /\ \E i \in 1..Len(ra_events) :
          /\ MutatedAt(ra_events, i)
          /\ ra_events[i].prev_hash # EmptyStr
          /\ ra_events[i - 1].hash # EmptyStr
          /\ ra_events[i].tick # ra_events[i - 1].tick
          /\ chain_ok = Some(FALSE)
          /\ break_tick = Some(ra_events[i].tick)

\* C3 as stated: in an accepted sequence every non-genesis checkpoint has
\* prev_hash equal to the hash of the checkpoint just before it.
Claim_C3 ==
    (ChainDone /\ chain_ok = Some(TRUE)) =>
        \A i \in 2..Len(ra_events) :
            ra_events[i].prev_hash = ra_events[i - 1].hash

\* C3 as amended: in an accepted sequence every non-genesis checkpoint whose
\* prev_hash is not empty has prev_hash equal to the hash of the checkpoint
\* just before it.
Thm_C3 ==
    (ChainDone /\ chain_ok = Some(TRUE)) =>
        \A i \in 2..Len(ra_events) :
            ra_events[i].prev_hash # EmptyStr =>
                ra_events[i].prev_hash = ra_events[i - 1].hash

Wit_C3 ==
    /\ ChainDone
    /\ chain_ok = Some(TRUE)
    /\ Len(ra_events) >= 2
    /\ ra_events[2].prev_hash # EmptyStr
    /\ ra_events[2].prev_hash = ra_events[1].hash

\* ------------------------------------------------ specification: compare
\* the comparator and the report read neither the seed nor the event log
InitCompare ==
    /\ tool = "determinism_audit"
    /\ seed = 0
    /\ BuilderIdle
    /\ FlowIdle
    /\ RaIdle
    /\ cmp_pc = "verify"
    /\ db_checkpoints \in CheckpointSeqs
    /\ cmp_replay \in Trajectories
    /\ verification_result = None
    /\ divergences = <<>>
    /\ report = None
    /\ exit_code = None

NextCompare ==
    \/ VerifyHashChain
    \/ GenerateReport

SpecCompare == InitCompare /\ [][NextCompare]_vars

\* ------------------------------------------------- specification: replay
InitReplay ==
    /\ tool \in {"determinism_audit", "replay_audit"}
    /\ seed \in Seeds
    /\ BuilderIdle
    /\ FlowIdle
    /\ CmpIdle
    /\ IF tool = "replay_audit"
       THEN /\ ra_pc = "loaded"
            /\ ra_events \in TickOnlyEventSeqs
            /\ hash_trajectory_1 = <<>>
            /\ hash_trajectory_2 = <<>>
            /\ divergence_point = None
            /\ audit_result = "PASS"
            /\ stable = None
            /\ ChainIdle
       ELSE RaIdle

NextReplay ==
    \/ \E evs \in Arguments : ReplayBegin(evs)
    \/ ReplayStep
    \/ ReplayReturn
    \/ StabilityBegin
    \/ StabilityRun
    \/ StabilityCompare

SpecReplay == InitReplay /\ [][NextReplay]_vars

\* ------------------------------------------------------- claims: builder
Returned == tool = "determinism_audit" /\ pc = "returned"

TwiceReturned == Returned /\ last.called

FirstDiff(a, b) == Least({i \in 1..Len(a) : a[i] # b[i]})

DiffersOnlyAt(a, b, k) ==
    /\ Len(a) = Len(b)
    /\ k \in 1..Len(a)
    /\ a[k] # b[k]
    /\ \A i \in 1..Len(a) : i # k => a[i] = b[i]

IsAscending(evs) ==
    \A i, j \in 1..Len(evs) : i < j => evs[i].tick <= evs[j].tick

LastWithTick(evs, t) ==
    CHOOSE i \in 1..Len(evs) :
        /\ evs[i].tick = t
        /\ \A j \in 1..Len(evs) : evs[j].tick = t => j <= i

\* C1: two invocations of replay_deterministically on the same (seed, events)
\* return the same sequence of (tick, digest), entry by entry; the two runs
\* inside verify_hash_stability produce equal trajectories, so it returns True
\* and no divergence point is ever recorded.
Thm_C1 ==
    /\ (TwiceReturned /\ last.events = events) => ret = last.hashes
    /\ divergence_point = None
    /\ ra_pc = "stability_done" =>
          /\ stable = Some(TRUE)
          /\ hash_trajectory_1 = hash_trajectory_2
          /\ audit_result = "PASS"

Wit_C1 ==
    /\ TwiceReturned
    /\ last.events = events
    /\ Len(events) >= 2
    /\ Len(ret) = Len(events)
    /\ ret = last.hashes

\* C7: replaying a permutation of the event sequence, seed fixed, returns a
\* trajectory that differs from the original one at some position at or after
\* the first position where the two event sequences differ.
Claim_C7 ==
    (TwiceReturned /\ events \in Perms(last.events) /\ events # last.events) =>
        \E i \in FirstDiff(events, last.events)..Len(events) :
            ret[i] # last.hashes[i]

\* C8: changing the content of the event at position k alone changes the
\* emitted digest at every position from k on.
Claim_C8 ==
    TwiceReturned =>
        \A k \in 1..Len(events) :
            DiffersOnlyAt(events, last.events, k) =>
                \A i \in k..Len(events) : ret[i][2] # last.hashes[i][2]

\* C9 as stated: the ticks of a returned trajectory are pairwise distinct.
Claim_C9 ==
    Returned =>
        \A i, j \in 1..Len(ret) : ret[i][1] = ret[j][1] => i = j

\* C9 as amended: the builder emits one entry per event, in encounter order,
\* each with its event's tick (so a tick may repeat); the lookup the comparator
\* builds from the trajectory has exactly one digest per tick, the one emitted
\* for the last event encountered with that tick.
Thm_C9 ==
    Returned =>
        /\ Len(ret) = Len(events)
        /\ \A i \in 1..Len(events) : ret[i][1] = events[i].tick
        /\ DOMAIN ReplayHashDict(ret) = {events[i].tick : i \in 1..Len(events)}
        /\ \A t \in DOMAIN ReplayHashDict(ret) :
              ReplayHashDict(ret)[t] = ret[LastWithTick(events, t)][2]

Wit_C9 ==
    /\ Returned
    /\ \E i, j \in 1..Len(events) :
          /\ i < j
          /\ events[i].tick = events[j].tick
          /\ ret[i][2] # ret[j][2]
          /\ ReplayHashDict(ret)[events[i].tick] = ret[j][2]

\* C10: the builder never returns a trajectory for an event sequence that is
\* not in ascending tick order (it stops with an error instead).
Claim_C10 == Returned => IsAscending(events)

\* ---------------------------------------------------- claims: comparator
Compared == cmp_pc \in {"report", "done"}

Reported == cmp_pc = "done" /\ report # None

CandidateTicks(cand) == {cand[j][1] : j \in 1..Len(cand)}

\* the candidate's digest for a tick; of several entries with the tick, the
\* last one
CandidateDigest(cand, t) ==
    cand[CHOOSE j \in 1..Len(cand) :
           /\ cand[j][1] = t
           /\ \A k \in 1..Len(cand) : cand[k][1] = t => k <= j][2]

ReferenceDigest(ref, i) == Hex(ref[i].world_hash)

IsMissing(ref, cand, i) == ref[i].tick \notin CandidateTicks(cand)

IsMismatch(ref, cand, i) ==
    /\ ref[i].tick \in CandidateTicks(cand)
    /\ ReferenceDigest(ref, i) # CandidateDigest(cand, ref[i].tick)

Divergent(ref, cand) ==
    {i \in 1..Len(ref) : IsMissing(ref, cand, i) \/ IsMismatch(ref, cand, i)}

\* the k-th smallest element of a set of indices
KthOf(D, k) == CHOOSE i \in D : Cardinality({j \in D : j < i}) = k - 1

ExpectedRecord(ref, cand, i) ==
    IF IsMissing(ref, cand, i)
    THEN [tick |-> ref[i].tick, db_hash |-> ReferenceDigest(ref, i),
          replay_hash |-> None, type |-> "missing_hash"]
    ELSE [tick |-> ref[i].tick, db_hash |-> ReferenceDigest(ref, i),
          replay_hash |-> CandidateDigest(cand, ref[i].tick),
          type |-> "hash_mismatch"]

RefTrajectory(ref) ==
    [i \in 1..Len(ref) |-> <<ref[i].tick, ReferenceDigest(ref, i)>>]

RefAscending(ref) ==
    \A i, j \in 1..Len(ref) : i < j => ref[i].tick <= ref[j].tick

\* entries of one trajectory that share a tick carry the same digest
OneDigestPerTick(cand) ==
    \A i, j \in 1..Len(cand) : cand[i][1] = cand[j][1] => cand[i][2] = cand[j][2]

\* C4: the comparator returns exactly one divergence per reference entry whose
\* tick is absent from the candidate (missing, replayed hash null) or whose
\* digest differs from the candidate's digest for that tick (mismatch, both
\* hashes recorded), nothing for matching entries or for ticks only the
\* candidate has, and the divergences are in reference order.
Thm_C4 ==
    Compared =>
        LET D == Divergent(db_checkpoints, cmp_replay)
        IN  /\ Len(divergences) = Cardinality(D)
            /\ \A k \in 1..Len(divergences) :
                  divergences[k] =
                      ExpectedRecord(db_checkpoints, cmp_replay, KthOf(D, k))

\* mismatch, then missing, with a tick only the candidate has
Wit_C4 ==
    /\ Compared
    /\ Len(db_checkpoints) = 2
    /\ Len(divergences) = 2
    /\ divergences[1].type = "hash_mismatch"
    /\ divergences[1].replay_hash # divergences[1].db_hash
    /\ divergences[2].type = "missing_hash"
    /\ divergences[2].replay_hash = None
    /\ divergences[1].tick < divergences[2].tick
    /\ \E t \in CandidateTicks(cmp_replay) :
          \A i \in 1..Len(db_checkpoints) : db_checkpoints[i].tick # t

ReportAgrees ==
    /\ Compared => (verification_result = Some(TRUE) <=> divergences = <<>>)
    /\ Reported =>
          /\ report[1].status = "PASS" <=> divergences = <<>>
          /\ divergences = <<>> <=> report[1].first_divergence_tick = None

\* C5 as stated: a candidate equal to the reference yields no divergence and
\* status PASS; and the status is PASS iff the divergence sequence is empty
\* iff first_divergence_tick is null.
Claim_C5 ==
    /\ (Compared /\ cmp_replay = RefTrajectory(db_checkpoints)) =>
          /\ divergences = <<>>
          /\ Reported => report[1].status = "PASS"
    /\ ReportAgrees

\* C5 as amended: the first half holds for a candidate equal to the reference
\* in which entries sharing a tick carry the same digest.
Thm_C5 ==
    /\ (/\ Compared
        /\ cmp_replay = RefTrajectory(db_checkpoints)
        /\ OneDigestPerTick(cmp_replay)) =>
          /\ divergences = <<>>
          /\ Reported => report[1].status = "PASS"
    /\ ReportAgrees

Wit_C5 ==
    /\ Reported
    /\ Len(cmp_replay) = 2
    /\ cmp_replay = RefTrajectory(db_checkpoints)
    /\ OneDigestPerTick(cmp_replay)
    /\ report[1].status = "PASS"
    /\ report[1].first_divergence_tick = None

\* C6: for a reference in ascending tick order, first_divergence_tick is the
\* smallest tick of a reference entry that is missing from or mismatched
\* against the candidate, and it is null only when there is none.
Thm_C6 ==
    (Reported /\ RefAscending(db_checkpoints)) =>
        LET D == Divergent(db_checkpoints, cmp_replay)
            first == report[1].first_divergence_tick
        IN  IF D = {} THEN first = None
            ELSE /\ first # None
                 /\ \E i \in D : db_checkpoints[i].tick = first[1]
                 /\ \A i \in D : first[1] <= db_checkpoints[i].tick

Wit_C6 ==
    /\ Reported
    /\ RefAscending(db_checkpoints)
    /\ Len(divergences) = 2
    /\ divergences[1].tick < divergences[2].tick
    /\ report[1].first_divergence_tick = Some(divergences[1].tick)

\* ------------------------------------------------ specification: boundary
\* the builder and the chain scan side by side, each on its own inputs
SpecBoundary == InitReplay /\ [][NextReplay \/ NextChain]_vars

\* C14: built from an empty event sequence the trajectory is empty, whatever
\* the seed; in general the trajectory has exactly one entry per input event,
\* in input order, each with its event's tick; and the chain scan of an empty
\* checkpoint sequence returns True.
Thm_C14 ==
    /\ Returned =>
          /\ Len(ret) = Len(events)
          /\ \A i \in 1..Len(events) : ret[i][1] = events[i].tick
          /\ events = <<>> => ret = <<>>
    /\ (ChainDone /\ ra_events = <<>>) =>
          (chain_ok = Some(TRUE) /\ break_tick = None)

Wit_C14 ==
    /\ Returned
    /\ seed # 0
    /\ events = <<>>
    /\ ret = <<>>

\* -------------------------------------------- claims: fail-fast chain scan
\* what the scan expects in front of checkpoint i
ExpectedPrev(cps, i) == IF i = 1 THEN Zero64 ELSE cps[i - 1].hash

\* checkpoint i carries a prev_hash that is not the expected one
BreaksAt(cps, i) ==
    /\ cps[i].prev_hash # EmptyStr
    /\ cps[i].prev_hash # ExpectedPrev(cps, i)

Breaks(cps) == {i \in 1..Len(cps) : BreaksAt(cps, i)}

\* C15: the scan starts from the 64-zero sentinel and expects, in front of each
\* checkpoint, the hash of the checkpoint scanned just before it, also when
\* that one had an empty prev_hash; it returns False exactly when some
\* checkpoint has a non-empty prev_hash different from the expected one, the
\* reported break is the earliest such checkpoint, none after it is examined
\* and audit_result becomes FAIL.
Thm_C15 ==
    /\ ra_pc = "chain_loop" =>
          /\ prev_hash = ExpectedPrev(ra_events, examined + 1)
          /\ \A i \in 1..examined : ~BreaksAt(ra_events, i)
          /\ chain_ok = None
          /\ break_tick = None
    /\ ChainDone =>
          IF Breaks(ra_events) = {}
          THEN /\ chain_ok = Some(TRUE)
               /\ break_tick = None
               /\ examined = Len(ra_events)
               /\ audit_result = "PASS"
          ELSE /\ chain_ok = Some(FALSE)
               /\ break_tick = Some(ra_events[Least(Breaks(ra_events))].tick)
               /\ examined = Least(Breaks(ra_events))
               /\ audit_result = "FAIL"

\* a break is reported while a later checkpoint is left unexamined
Wit_C15 ==
    /\ ChainDone
    /\ chain_ok = Some(FALSE)
    /\ examined < Len(ra_events)
    /\ break_tick = Some(ra_events[examined].tick)
    /\ audit_result = "FAIL"

\* ---------------------------- DeterminismAuditor: run_audit and main
\* the rows "ORDER BY tick ASC" can return from input_events
SortedLogs == {evs \in EventSeqs : IsAscending(evs)}

\* world_hash values a hash_checkpoints row can hold: a digest the replay of
\* the log can produce, or some other digest
CheckpointDigests(s, evs) ==
    {EventHash(evs[i], [rng_state |-> r]) :
        i \in DOMAIN evs,
        r \in {InitialRngState(s), NextRngState(InitialRngState(s))}}
    \cup {Sha256(<<"x">>)}

\* the rows "ORDER BY tick ASC" can return from hash_checkpoints
SortedCheckpoints(s, evs) ==
    {cps \in UNION {[1..n -> [tick : Ticks, world_hash : CheckpointDigests(s, evs)]] :
                      n \in 0..MaxEvents} : IsAscending(cps)}

\* connect, lines 29-37
Connect ==
    /\ tool = "determinism_audit"
    /\ main_pc = "connect"
    /\ \E connected \in BOOLEAN :
          IF connected
          THEN /\ main_pc' = "load_event_log"
               /\ UNCHANGED exit_code
          ELSE /\ main_pc' = "connect_failed"
               /\ exit_code' = Some(2)
    /\ UNCHANGED <<tool, seed, builderVars, raVars, cmp_pc, db_checkpoints,
                   cmp_replay, verification_result, divergences, report,
                   log_events, checkpoints, hash_trajectory, ra_report>>

\* load_event_log, lines 39-53, called at line 202
LoadEventLog ==
    /\ tool = "determinism_audit"
    /\ main_pc = "load_event_log"
    /\ \/ /\ log_events' \in SortedLogs
          /\ main_pc' = "load_hash_checkpoints"
          /\ UNCHANGED exit_code
       \/ /\ main_pc' = "load_event_log_failed"
          /\ exit_code' = Some(2)
          /\ UNCHANGED log_events
    /\ UNCHANGED <<tool, seed, builderVars, raVars, cmp_pc, db_checkpoints,
                   cmp_replay, verification_result, divergences, report,
                   checkpoints, hash_trajectory, ra_report>>

\* load_hash_checkpoints, lines 55-69, called at line 203
LoadHashCheckpoints ==
    /\ tool = "determinism_audit"
    /\ main_pc = "load_hash_checkpoints"
    /\ \/ /\ checkpoints' \in SortedCheckpoints(seed, log_events)
          /\ main_pc' = "replay"
          /\ UNCHANGED exit_code
       \/ /\ main_pc' = "load_hash_checkpoints_failed"
          /\ exit_code' = Some(2)
          /\ UNCHANGED checkpoints
    /\ UNCHANGED <<tool, seed, builderVars, raVars, cmp_pc, db_checkpoints,
                   cmp_replay, verification_result, divergences, report,
                   log_events, hash_trajectory, ra_report>>

\* line 206: replay_hashes = self.replay_deterministically(events)
AuditReplay ==
    /\ main_pc = "replay"
    /\ \/ pc = "idle" /\ ReplayBegin(log_events)
       \/ ReplayStep
       \/ ReplayReturn

\* line 209: the call self.verify_hash_chain(checkpoints, replay_hashes)
CallVerifyHashChain ==
    /\ tool = "determinism_audit"
    /\ main_pc = "replay"
    /\ pc = "returned"
    /\ db_checkpoints' = checkpoints
    /\ cmp_replay' = ret
    /\ cmp_pc' = "verify"
    /\ main_pc' = "verify"
    /\ UNCHANGED <<tool, seed, builderVars, raVars, verification_result,
                   divergences, report, exit_code, log_events, checkpoints,
                   hash_trajectory, ra_report>>

\* lines 209-212: verify_hash_chain, then generate_report
AuditVerify ==
    /\ main_pc = "verify"
    /\ \/ VerifyHashChain
       \/ GenerateReport

\* main, lines 232-241: run_audit has returned
AuditorMain ==
    /\ tool = "determinism_audit"
    /\ main_pc = "verify"
    /\ cmp_pc = "done"
    /\ exit_code = None
    /\ exit_code' = Some(IF verification_result[1] THEN 0 ELSE 1)
    /\ main_pc' = "returned"
    /\ UNCHANGED <<tool, seed, builderVars, raVars, cmp_pc, db_checkpoints,
                   cmp_replay, verification_result, divergences, report,
                   log_events, checkpoints, hash_trajectory, ra_report>>

\* ------------------------------------- ReplayAudit: run_audit and main
DashChar == <<"-">>

\* line 115: the f-string of 'event_range'
EventRange(evs) ==
    ToStr(IF evs # <<>> THEN evs[1].tick ELSE 0) \o DashChar
    \o ToStr(IF evs # <<>> THEN evs[Len(evs)].tick ELSE 0)

\* generate_audit_report, lines 110-135: the parts computed from the state
GenerateAuditReport ==
    [seed_used |-> seed,
     event_count |-> Len(ra_events),
     event_range |-> EventRange(ra_events),
     audit_result |-> audit_result,
     divergence_point |-> divergence_point,
     hash_trajectory |-> hash_trajectory,
     determinism_replay |-> (audit_result = "PASS"),
     hash_chain_integrity |-> (audit_result = "PASS")]

\* load_events, lines 25-34, called at line 154; on failure run_audit
\* returns False at line 155
LoadEvents ==
    /\ tool = "replay_audit"
    /\ main_pc = "load_events"
    /\ \/ /\ ra_events' \in ChainEventSeqs
          /\ ra_pc' = "loaded"
          /\ main_pc' = "run_replay"
       \/ /\ main_pc' = "load_failed"
          /\ UNCHANGED <<ra_events, ra_pc>>
    /\ UNCHANGED <<tool, seed, builderVars, cmpVars, hash_trajectory_1,
                   hash_trajectory_2, divergence_point, audit_result, stable,
                   chainVars, log_events, checkpoints, hash_trajectory,
                   ra_report>>

\* run_replay, lines 42-59, called at line 158: it always returns True
RunReplay ==
    /\ tool = "replay_audit"
    /\ main_pc = "run_replay"
    /\ hash_trajectory' =
          hash_trajectory \o
          [i \in 1..PhaseTicks |->
              [tick |-> i - 1,
               hash |-> SimulateUniverseState(seed, ra_events, i - 1)]]
    /\ main_pc' = "stability"
    /\ UNCHANGED <<tool, seed, builderVars, cmpVars, raVars, log_events,
                   checkpoints, ra_report>>

\* line 162: self.verify_hash_stability()
AuditStability ==
    /\ main_pc = "stability"
    /\ \/ StabilityBegin
       \/ StabilityRun
       \/ StabilityCompare

\* lines 162-163: the test of the value verify_hash_stability returned
AfterStability ==
    /\ tool = "replay_audit"
    /\ main_pc = "stability"
    /\ ra_pc = "stability_done"
    /\ IF stable = Some(TRUE)
       THEN /\ main_pc' = "chain"
            /\ ra_pc' = "loaded"
       ELSE /\ main_pc' = "stability_failed"
            /\ UNCHANGED ra_pc
    /\ UNCHANGED <<tool, seed, builderVars, cmpVars, ra_events,
                   hash_trajectory_1, hash_trajectory_2, divergence_point,
                   audit_result, stable, chainVars, log_events, checkpoints,
                   hash_trajectory, ra_report>>

\* line 166: self.verify_hash_chain()
AuditChain ==
    /\ main_pc = "chain"
    /\ \/ ChainBegin
       \/ ChainStep
       \/ ChainReturn

\* lines 166-179: the test of the value verify_hash_chain returned, and the
\* report, generated and printed or saved only when the test passes
AfterChain ==
    /\ tool = "replay_audit"
    /\ main_pc = "chain"
    /\ ra_pc = "chain_done"
    /\ IF chain_ok = Some(TRUE)
       THEN /\ ra_report' = Some(GenerateAuditReport)
            /\ main_pc' = "reported"
       ELSE /\ main_pc' = "chain_failed"
            /\ UNCHANGED ra_report
    /\ UNCHANGED <<tool, seed, builderVars, cmpVars, raVars, log_events,
                   checkpoints, hash_trajectory>>

\* the positions at which run_audit returns
RunAuditReturned ==
    main_pc \in {"load_failed", "stability_failed", "chain_failed", "reported"}

\* the value run_audit returns: False at lines 155-167, the test of line 179
Success == main_pc = "reported" /\ audit_result = "PASS"

\* main, lines 190-196: sys.exit(0 if success else 1)
ReplayAuditMain ==
    /\ tool = "replay_audit"
    /\ RunAuditReturned
    /\ exit_code = None
    /\ exit_code' = Some(IF Success THEN 0 ELSE 1)
    /\ UNCHANGED <<tool, seed, builderVars, raVars, cmp_pc, db_checkpoints,
                   cmp_replay, verification_result, divergences, report,
                   flowVars>>

\* ------------------------------------------------- specification: tools
\* either script, started from its command line
InitTools ==
    /\ tool \in {"determinism_audit", "replay_audit"}
    /\ seed \in Seeds
    /\ BuilderIdle
    /\ CmpIdle
    /\ RaIdle
    /\ main_pc = (IF tool = "determinism_audit" THEN "connect" ELSE "load_events")
    /\ log_events = <<>>
    /\ checkpoints = <<>>
    /\ hash_trajectory = <<>>
    /\ ra_report = None

NextTools ==
    \/ Connect
    \/ LoadEventLog
    \/ LoadHashCheckpoints
    \/ AuditReplay
    \/ CallVerifyHashChain
    \/ AuditVerify
    \/ AuditorMain
    \/ LoadEvents
    \/ RunReplay
    \/ AuditStability
    \/ AfterStability
    \/ AuditChain
    \/ AfterChain
    \/ ReplayAuditMain

SpecTools == InitTools /\ [][NextTools]_vars

\* --------------------------------------------------------- claims: tools
Exited == exit_code # None

\* the data source was unreachable or the events could not be loaded
IngestionFailed ==
    \/ main_pc \in {"connect_failed", "load_event_log_failed",
                    "load_hash_checkpoints_failed", "load_failed"}
    \/ tool = "determinism_audit" /\ cmp_pc = "done" /\ report = None

\* a verification step found a divergence or a chain break
FailFound ==
    \/ verification_result = Some(FALSE)
    \/ stable = Some(FALSE)
    \/ chain_ok = Some(FALSE)

\* every verification step ran and none found anything
Verified ==
    IF tool = "determinism_audit"
    THEN verification_result = Some(TRUE)
    ELSE stable = Some(TRUE) /\ chain_ok = Some(TRUE) /\ audit_result = "PASS"

\* a report with status FAIL has been rendered
FailReported ==
    IF tool = "determinism_audit"
    THEN report # None /\ report[1].status = "FAIL"
    ELSE ra_report # None /\ ra_report[1].audit_result = "FAIL"

\* C11: a run of either tool exits with 0 only if the audit verified, with 1
\* if and only if a divergence or chain break was detected, and with 2 if and
\* only if ingestion or configuration failed.
Claim_C11 ==
    Exited =>
       /\ exit_code = Some(0) => Verified
       /\ exit_code = Some(1) <=> FailFound
       /\ exit_code = Some(2) <=> IngestionFailed

\* C12: a run in which a verification step finds a divergence or a chain
\* break ends with a rendered report of status FAIL and a nonzero exit.
Claim_C12 ==
    (Exited /\ FailFound) => (FailReported /\ exit_code # Some(0))

\* the positions of run_audit at which a verification step is called or runs
VerificationSteps == {"replay", "verify", "run_replay", "stability", "chain"}

\* C13: building a trajectory, comparing trajectories and verifying the chain
\* leave the auditor's seed, events, stored hash trajectory, audit result and
\* divergence point unchanged.
Claim_C13 ==
    [][(main_pc \in VerificationSteps) =>
          UNCHANGED <<seed, ra_events, hash_trajectory, audit_result,
                      divergence_point>>]_vars
====
